---------------------------- MODULE Spec2Model ----------------------------
(***************************************************************************)
(* A state-machine model of gordonbrander/mild.                            *)
(*                                                                         *)
(*   Spec     the Store class of src/mild.js: send, #scheduleRender, run,  *)
(*            runAll, driven by events, effect settlements and animation   *)
(*            frames, rendering through a view that is either decorated by *)
(*            view()/rendering() or plain.                                 *)
(*   SpecUse  useStore, render() and animationQueue() of                   *)
(*            src/unnamed/part_004.                                        *)
(*   SpecGate rendering() and view() of src/mild.js called directly, on    *)
(*            elements made by the caller or by view().create.             *)
(*   SpecInsert  insertElementAt of src/mild.js on any parent.             *)
(*   SpecList    list of src/mild.js, called with states that all have a   *)
(*            key, the keys pairwise distinct.                             *)
(*   SpecListAny list called with states some of which have no key.        *)
(*   SpecListFail  list when a state is null or a child's create or render *)
(*            raises.                                                      *)
(*   SpecListSend  list and the send functions it gives to its children.   *)
(*   SpecFun  the Store function of src/unnamed/part_005 with the effects  *)
(*            NoFx, JustFx and Fx.                                         *)
(*   SpecThrow  the Store class with a render that may raise.              *)
(*   SpecListView  list with an item decorated by view(), the entries'     *)
(*            state references observed.                                   *)
(*   SpecListDup   the same with entries that may share a key.             *)
(*   SpecListHist  longer histories of list calls on one parent.           *)
(*   SpecCursor  a Store whose update is composed with cursor().           *)
(*                                                                         *)
(* State values are references: two states are the same reference exactly  *)
(* when they are the same number.  The application's init and update are   *)
(* arbitrary: every transaction they may return is drawn with \E.          *)
(***************************************************************************)
EXTENDS Integers, Sequences, FiniteSets, Bags, TLC

\* ------------------------------------------------------------------ bounds
\* Number of distinct state references the application produces.
NStates == 2
\* Total number of update invocations in one behaviour (sends in flight count).
MaxSends == 3
\* Length of the effects array of one transaction.
MaxFx == 2
\* Number of send calls the application's render makes in one invocation.
MaxRenderSends == 1

States == 0 .. (NStates - 1)
Msgs == {"m1", "m2"}
\* What an effect settles to: an action, null, undefined, or a rejection.
Effects == Msgs \cup {"null", "undefined", "reject"}
Min(a, b) == IF a < b THEN a ELSE b
\* Effect arrays of at most k effects (and at most MaxFx).
FxLists(k) == UNION {[1 .. n -> Effects] : n \in 0 .. Min(k, MaxFx)}
\* next(state, effects), src/mild.js:56: the transactions with at most k effects.
Transactions(k) == [state : States, effects : FxLists(k)]

\* The reference init returns; which one it is does not matter.
InitState == CHOOSE s \in States : TRUE

RECURSIVE SeqToBag(_)
SeqToBag(s) == IF s = <<>> THEN EmptyBag
               ELSE SetToBag({s[1]}) (+) SeqToBag(Tail(s))

VARIABLES
  \* ---- Store (src/mild.js)
  state,              \* #state
  isRenderScheduled,  \* #isRenderScheduled
  rafPending,         \* requestAnimationFrame callbacks of the store not yet fired
  frameQueue,         \* callbacks fired at the current frame, continuation not yet run
  rendering,          \* the continuation of #scheduleRender is inside #render
  writing,            \* ... and inside the application's (undecorated) render
  gated,              \* the view is decorated by view()
  elState,            \* element[_state] of the target ("unset" until written)
  inflight,           \* bag of effects handed to run() and not yet settled
  \* ---- observations
  renderArg,          \* state last passed to #render (init's state after create)
  stateAtRequest,     \* #state when the pending render was requested
  windowSends,        \* send calls since the last frame boundary, outside render
  prevWindowSends,    \* the same for the window closed by the last boundary
  frameRenders,       \* #render invocations since the last frame boundary
  renderSends,        \* send calls made inside the current/last #render
  writes,             \* invocations of the application's (undecorated) render
  nUpdates,           \* invocations of update
  nChanges,           \* ... that returned another state reference
  nReturned,          \* effects returned by init and update
  nRun,               \* invocations of run()
  nSettled,           \* effects settled
  nSettledMsg,        \* ... with an action (neither null nor undefined)
  nFxSends,           \* send calls made by run()
  lastSettled,        \* value of the effect settled last
  lastMsg,            \* action last passed to send
  nSends,             \* calls of send entered
  lastRet,            \* state the last invocation of update returned (init's
                      \* state before the first)
  chained,            \* every invocation of update so far received the state
                      \* the invocation before it returned
  \* ---- useStore, render, animationQueue (src/unnamed/part_004)
  u_state,            \* useStore's `state`
  u_queue,            \* animationQueue's `queue`: the queued render callbacks, in
                      \* insertion order, each the state its closure holds
  u_isFrameScheduled, \* animationQueue's `isFrameScheduled`
  u_raf,              \* requestAnimationFrame(transact) requests not yet fired
  u_pos,              \* transact's iteration: index of the next callback, 0 outside
  u_inRender,         \* inside target.render(state, send)
  u_objState,         \* target[__state__]
  u_renders,          \* invocations of target.render
  u_nUpdates,         \* invocations of update
  u_nReturned,        \* effects returned by init and update
  u_nRun,             \* invocations of runEffect
  u_sendsQueued,      \* state-changing sends since the last frame pass ended
  u_passArgs,         \* states passed to target.render in the current (last) pass
  u_passRan,          \* queued callbacks called in the current (last) pass
  u_passSends,        \* sends made inside target.render in that pass
  \* ---- rendering() and view() used on their own (src/mild.js)
  g_made,             \* per target: "none", or how the element came to be
  g_cache,            \* per target: element[_state] of the gate
  g_log,              \* per target: the gated calls made on it, in order
  \* ---- insertElementAt (src/mild.js)
  i_children,         \* parent.children, first child first
  i_last,             \* the last call: arguments, children before, DOM calls
  \* ---- list (src/mild.js)
  l_children,         \* parent.children, first child first
  l_key,              \* child[_id] of every element there is
  l_next,             \* the element the next call of create returns
  l_calls,            \* calls of list made
  l_last,             \* the last call: its states, the children before, what
                      \* it removed, created, moved and rendered
  l_addr,             \* per element: the tags of the send functions it was given
  l_tagging,          \* the item's tagging: "noTagging" (the default) or "custom"
  l_lastSend,         \* the last call of a child's send function: the child,
                      \* the message, and the calls of list's send it made
  l_cache,            \* element[_state] of the item's gate, per element, when
                      \* the item is decorated by view()
  l_refs,             \* the state references of the last call's entries
  l_writes,           \* the invocations of the item's underlying render in
                      \* the last call: element and state, in order
  \* ---- Store function (src/unnamed/part_005)
  p_state,            \* `state`
  p_isFrameScheduled, \* `isFrameScheduled`
  p_raf,              \* requestAnimationFrame(frame) callbacks not yet fired
  p_phase,            \* "constructing": Store is running init's effect;
                      \* "tick": Store returned, the first render's microtask
                      \* is pending; "running": the microtask has run;
                      \* "idle": Store has not been called
  p_inRender,         \* frame is inside render(state, send)
  p_nUpdates,         \* invocations of update
  p_pending,          \* Fx effects whose promise has not resolved
  p_renderArg,        \* state last passed to render
  \* ---- a Store whose update is made by cursor() (src/mild.js)
  c_state,            \* #state
  c_tag,              \* the kind of the cursor's tag function
  c_inflight,         \* the child effects whose tagged effect run() awaits
  c_nUpdates,         \* invocations of the child update
  c_last,             \* the child effect that settled last, what its tagged
                      \* effect resolved to, and whether run() sent it
  \* ---- Store (src/mild.js), observation
  threw               \* the application's render has raised in a frame callback

storeVars == <<state, isRenderScheduled, rafPending, frameQueue, rendering,
               writing, gated, elState, inflight>>
obsVars == <<renderArg, stateAtRequest, windowSends, prevWindowSends,
             frameRenders, renderSends, writes, nUpdates, nChanges, nReturned,
             nRun, nSettled, nSettledMsg, nFxSends, lastSettled, lastMsg,
             nSends, lastRet, chained, threw>>
useVars == <<u_state, u_queue, u_isFrameScheduled, u_raf, u_pos, u_inRender,
             u_objState, u_renders, u_nUpdates, u_nReturned, u_nRun,
             u_sendsQueued, u_passArgs, u_passRan, u_passSends>>
gateVars == <<g_made, g_cache, g_log>>
\* Everything that is neither the Store's nor useStore's.
insertVars == <<i_children, i_last>>
listVars == <<l_children, l_key, l_next, l_calls, l_last, l_addr, l_tagging,
              l_lastSend, l_cache, l_refs, l_writes>>
funVars == <<p_state, p_isFrameScheduled, p_raf, p_phase, p_inRender,
             p_nUpdates, p_pending, p_renderArg>>
cursorVars == <<c_state, c_tag, c_inflight, c_nUpdates, c_last>>
viewVars == <<gateVars, insertVars, listVars, funVars, cursorVars>>
vars == <<storeVars, obsVars, useVars, viewVars>>


\* ------------------------------------------------------- Store, src/mild.js

\* Store.run, line 139: `action != null` is false for null and for undefined.
IsActionStrict(v) == v # "null"
IsAction(v) == v \notin {"null", "undefined"}

\* The value undefined, where it is passed as a state.
Undefined == -1
\* What element[_state] holds once `state` was assigned to it, line 239: a
\* property never assigned reads undefined, as one assigned undefined does.
Ref(s) == IF s = Undefined THEN <<>> ELSE <<s>>

\* rendering(), line 237: `prev !== state`, prev the element's cached state.
ChangedAlways(prev, s) == TRUE
Changed(prev, s) == prev # Ref(s)

\* #scheduleRender, line 128: the state handed to #render is read from the
\* store when the frame callback runs.
RenderStateAtRequest == stateAtRequest
RenderState == state

\* #scheduleRender up to its await, lines 122-127; s is #state at the call.
ScheduleRenderNoGuard(s) ==
  /\ isRenderScheduled' = TRUE
  /\ rafPending' = rafPending + 1
  /\ stateAtRequest' = s
ScheduleRender(s) ==
  IF isRenderScheduled
  THEN UNCHANGED <<isRenderScheduled, rafPending, stateAtRequest>>
  ELSE /\ isRenderScheduled' = TRUE
       /\ rafPending' = rafPending + 1
       /\ stateAtRequest' = s

\* runAll, lines 148-152: run() is called for every effect of the transaction;
\* each call suspends at its await (line 138).  base is the bag of effects in
\* flight before the call.
RunAllSync(tx, base) ==
  /\ inflight' = base (+) SeqToBag(SelectSeq(tx.effects, LAMBDA e : e \notin Msgs))
  /\ nRun' = nRun + Len(tx.effects)
RunAllIfChanged(tx, base) ==
  IF tx.state # state
  THEN /\ inflight' = base (+) SeqToBag(tx.effects)
       /\ nRun' = nRun + Len(tx.effects)
  ELSE /\ inflight' = base
       /\ nRun' = nRun
RunAll(tx, base) ==
  /\ inflight' = base (+) SeqToBag(tx.effects)
  /\ nRun' = nRun + Len(tx.effects)

\* send, line 115: the state handed to update is read from the store when
\* send is called.
UpdateArgAtRequest == stateAtRequest
UpdateArg == state

\* send, lines 113-120, with tx the transaction update returns.
DoSend(m, tx, base) ==
  /\ nSends' = nSends + 1
  /\ chained' = (chained /\ UpdateArg = lastRet)
  /\ lastRet' = tx.state
  /\ state' = tx.state
  /\ ScheduleRender(tx.state)
  /\ RunAll(tx, base)
  /\ nUpdates' = nUpdates + 1
  /\ nChanges' = nChanges + (IF tx.state # state THEN 1 ELSE 0)
  /\ nReturned' = nReturned + Len(tx.effects)
  /\ lastMsg' = m

\* The transactions update may return when the effects in flight are base: the
\* updates made and the effects in flight stay within MaxSends.
Returnable(base) ==
  Transactions(MaxSends - (nUpdates + 1 + BagCardinality(base)))

\* send called from an event handler (any code outside render and run).
Send(m) ==
  /\ UNCHANGED <<useVars, viewVars, threw>>
  /\ ~rendering /\ frameQueue = 0
  /\ nUpdates + BagCardinality(inflight) < MaxSends
  /\ \E tx \in Returnable(inflight) : DoSend(m, tx, inflight)
  /\ windowSends' = windowSends + 1
  /\ UNCHANGED <<frameQueue, rendering, writing, gated, elState, renderArg,
                 prevWindowSends, frameRenders, renderSends, writes, nSettled,
                 nSettledMsg, nFxSends, lastSettled>>

\* run, lines 138-141: an effect that rejects makes the await throw, and
\* the value of one that fulfils is sent when it is an action.
DeliversRejection(e) == IsAction(e)
Delivers(e) == e # "reject" /\ IsAction(e)

\* run, lines 137-142, from the await on: the effect e settles.
Resolve(e) ==
  /\ UNCHANGED <<useVars, viewVars, threw>>
  /\ ~rendering /\ frameQueue = 0
  /\ BagIn(e, inflight)
  /\ nSettled' = nSettled + 1
  /\ nSettledMsg' = nSettledMsg + (IF e \in Msgs THEN 1 ELSE 0)
  /\ lastSettled' = e
  /\ LET rest == inflight (-) SetToBag({e}) IN
     IF Delivers(e)
     THEN /\ \E tx \in Returnable(rest) : DoSend(e, tx, rest)
          /\ windowSends' = windowSends + 1
          /\ nFxSends' = nFxSends + 1
     ELSE /\ inflight' = rest
          /\ UNCHANGED <<state, isRenderScheduled, rafPending, stateAtRequest,
                         nRun, nUpdates, nChanges, nReturned, lastMsg,
                         windowSends, nFxSends, nSends, lastRet, chained>>
  /\ UNCHANGED <<frameQueue, rendering, writing, gated, elState, renderArg,
                 prevWindowSends, frameRenders, renderSends, writes>>

\* The browser reaches an animation frame: the callbacks requested with
\* requestAnimationFrame (line 62) fire; each resolves its promise.
FrameBoundary ==
  /\ UNCHANGED <<useVars, viewVars, threw>>
  /\ ~rendering /\ frameQueue = 0
  /\ frameQueue' = rafPending
  /\ rafPending' = 0
  /\ prevWindowSends' = windowSends
  /\ windowSends' = 0
  /\ frameRenders' = 0
  /\ UNCHANGED <<state, isRenderScheduled, rendering, writing, gated, elState,
                 inflight, renderArg, stateAtRequest, renderSends, writes,
                 nUpdates, nChanges, nReturned, nRun, nSettled, nSettledMsg,
                 nFxSends, lastSettled, lastMsg, nSends, lastRet, chained>>

\* #scheduleRender after its await, line 128: #render is entered.  With a
\* decorated view #render is renderWhenChanged (lines 235-241), which enters
\* the application's render only when the state reference changed.
RenderBegin ==
  /\ UNCHANGED <<useVars, viewVars, threw>>
  /\ frameQueue > 0 /\ ~rendering
  /\ frameQueue' = frameQueue - 1
  /\ rendering' = TRUE
  /\ renderArg' = RenderState
  /\ frameRenders' = frameRenders + 1
  /\ renderSends' = 0
  /\ LET w == IF gated THEN Changed(elState, RenderState) ELSE TRUE IN
       /\ writing' = w
       /\ writes' = writes + (IF w THEN 1 ELSE 0)
  /\ UNCHANGED <<state, isRenderScheduled, rafPending, gated, elState,
                 inflight, stateAtRequest, windowSends, prevWindowSends,
                 nUpdates, nChanges, nReturned, nRun, nSettled, nSettledMsg,
                 nFxSends, lastSettled, lastMsg, nSends, lastRet, chained>>

\* The application's render calls send synchronously.
RenderSend(m) ==
  /\ UNCHANGED <<useVars, viewVars, threw>>
  /\ rendering /\ writing
  /\ renderSends < MaxRenderSends
  /\ nUpdates + BagCardinality(inflight) < MaxSends
  /\ \E tx \in Returnable(inflight) : DoSend(m, tx, inflight)
  /\ renderSends' = renderSends + 1
  /\ UNCHANGED <<frameQueue, rendering, writing, gated, elState, renderArg,
                 windowSends, prevWindowSends, frameRenders, writes, nSettled,
                 nSettledMsg, nFxSends, lastSettled>>

\* #render returns: renderWhenChanged caches the state it wrote (line 239),
\* then #scheduleRender clears the flag (line 130).
RenderEnd ==
  /\ UNCHANGED <<useVars, viewVars, threw>>
  /\ rendering
  /\ elState' = IF gated /\ writing THEN <<renderArg>> ELSE elState
  /\ writing' = FALSE
  /\ rendering' = FALSE
  /\ isRenderScheduled' = FALSE
  /\ UNCHANGED <<state, rafPending, frameQueue, gated, inflight, renderArg,
                 stateAtRequest, windowSends, prevWindowSends, frameRenders,
                 renderSends, writes, nUpdates, nChanges, nReturned, nRun,
                 nSettled, nSettledMsg, nFxSends, lastSettled, lastMsg,
                 nSends, lastRet, chained>>

\* The application's render raises: renderWhenChanged does not reach its
\* assignment (line 239), the exception leaves #scheduleRender at line 128
\* and rejects its promise, which nobody awaits; line 130 is not reached.
RenderThrow ==
  /\ UNCHANGED <<useVars, viewVars>>
  /\ rendering /\ writing
  /\ threw' = TRUE
  /\ writing' = FALSE
  /\ rendering' = FALSE
  /\ UNCHANGED <<state, isRenderScheduled, rafPending, frameQueue, gated,
                 elState, inflight, renderArg, stateAtRequest, windowSends,
                 prevWindowSends, frameRenders, renderSends, writes, nUpdates,
                 nChanges, nReturned, nRun, nSettled, nSettledMsg, nFxSends,
                 lastSettled, lastMsg, nSends, lastRet, chained>>

\* create(this.#state, this.send), line 104: the invocations of the
\* application's render it makes; the create of a decorated view renders
\* once (lines 257-261), that of a basic view creates only.
CreateWritesNone(g) == IF g THEN 0 ELSE 0
CreateWrites(g) == IF g THEN 1 ELSE 0

\* The Store after its constructor, lines 98-107: init's state is current, the
\* element is created (a decorated view renders it once while creating,
\* lines 257-261) and init's effects are handed to run().  txs are the
\* transactions init may return, gs the kinds of view.
StoreInit(txs, gs) ==
  /\ gated \in gs
  /\ \E tx \in txs :
       /\ tx.state = InitState
       /\ state = tx.state
       /\ inflight = SeqToBag(tx.effects)
       /\ nReturned = Len(tx.effects)
       /\ nRun = Len(tx.effects)
       /\ renderArg = tx.state
       /\ stateAtRequest = tx.state
       /\ elState = IF gated THEN <<tx.state>> ELSE <<>>
       /\ lastRet = tx.state
  /\ nSends = 0
  /\ chained = TRUE
  /\ threw = FALSE
  /\ writes = CreateWrites(gated)
  /\ isRenderScheduled = FALSE
  /\ rafPending = 0
  /\ frameQueue = 0
  /\ rendering = FALSE
  /\ writing = FALSE
  /\ windowSends = 0
  /\ prevWindowSends = 0
  /\ frameRenders = 0
  /\ renderSends = 0
  /\ nUpdates = 0
  /\ nChanges = 0
  /\ nSettled = 0
  /\ nSettledMsg = 0
  /\ nFxSends = 0
  /\ lastSettled = "none"
  /\ lastMsg = "none"

\* ------------------------------------- useStore, src/unnamed/part_004

\* render(object, state, send), lines 620-625, with withAnimationFrame,
\* lines 586-592: a frame is requested unless one is scheduled, and the
\* callback, which holds s, joins the queue.
URenderAlwaysRequests(s) ==
  /\ u_raf' = u_raf + 1
  /\ u_isFrameScheduled' = TRUE
  /\ u_queue' = Append(u_queue, s)
URender(s) ==
  /\ IF u_isFrameScheduled
     THEN UNCHANGED <<u_isFrameScheduled, u_raf>>
     ELSE /\ u_raf' = u_raf + 1
          /\ u_isFrameScheduled' = TRUE
  /\ u_queue' = Append(u_queue, s)

\* useStore's send, lines 694-707, with tx the transaction update returns.
\* The effects of tx are not used: runEffects (line 716) is never called.
UDoSend(m, tx) ==
  /\ u_nUpdates < MaxSends
  /\ u_nUpdates' = u_nUpdates + 1
  /\ u_nReturned' = u_nReturned + Len(tx.effects)
  /\ u_nRun' = u_nRun
  /\ IF u_state # tx.state
     THEN /\ u_state' = tx.state
          /\ URender(tx.state)
     ELSE UNCHANGED <<u_state, u_isFrameScheduled, u_raf, u_queue>>

\* send called from an event handler.
USend(m) ==
  /\ u_pos = 0
  /\ \E tx \in Transactions(MaxFx) : UDoSend(m, tx)
  /\ u_sendsQueued' = u_sendsQueued + (IF u_state' # u_state THEN 1 ELSE 0)
  /\ UNCHANGED <<u_pos, u_inRender, u_objState, u_renders, u_passArgs,
                 u_passRan, u_passSends>>
  /\ UNCHANGED <<storeVars, obsVars, viewVars>>

\* The requested frame arrives: transact (lines 578-584) starts iterating.
UTransactBegin ==
  /\ u_pos = 0 /\ u_raf > 0
  /\ u_raf' = u_raf - 1
  /\ u_pos' = 1
  /\ u_passArgs' = <<>>
  /\ u_passRan' = 0
  /\ u_passSends' = 0
  /\ UNCHANGED <<u_state, u_queue, u_isFrameScheduled, u_inRender, u_objState,
                 u_renders, u_nUpdates, u_nReturned, u_nRun, u_sendsQueued>>
  /\ UNCHANGED <<storeVars, obsVars, viewVars>>

\* transact calls the next callback of the queue (line 580); the callback
\* (lines 620-625) enters target.render when the state is not the cached one.
UCallback ==
  /\ u_pos >= 1 /\ u_pos <= Len(u_queue) /\ ~u_inRender
  /\ IF u_objState # <<u_queue[u_pos]>>
     THEN /\ u_inRender' = TRUE
          /\ u_renders' = u_renders + 1
          /\ u_pos' = u_pos
          /\ u_passArgs' = Append(u_passArgs, u_queue[u_pos])
     ELSE /\ u_pos' = u_pos + 1
          /\ UNCHANGED <<u_inRender, u_renders, u_passArgs>>
  /\ u_passRan' = u_passRan + 1
  /\ UNCHANGED <<u_state, u_queue, u_isFrameScheduled, u_raf, u_objState,
                 u_nUpdates, u_nReturned, u_nRun, u_sendsQueued, u_passSends>>
  /\ UNCHANGED <<storeVars, obsVars, viewVars>>

\* target.render calls send synchronously.
URenderSend(m) ==
  /\ u_inRender
  /\ \E tx \in Transactions(MaxFx) : UDoSend(m, tx)
  /\ u_passSends' = u_passSends + 1
  /\ UNCHANGED <<u_pos, u_inRender, u_objState, u_renders, u_sendsQueued,
                 u_passArgs, u_passRan>>
  /\ UNCHANGED <<storeVars, obsVars, viewVars>>

\* target.render returns; the callback caches the state (line 623).
UCallbackEnd ==
  /\ u_inRender
  /\ u_objState' = <<u_queue[u_pos]>>
  /\ u_inRender' = FALSE
  /\ u_pos' = u_pos + 1
  /\ UNCHANGED <<u_state, u_queue, u_isFrameScheduled, u_raf, u_renders,
                 u_nUpdates, u_nReturned, u_nRun, u_sendsQueued, u_passArgs,
                 u_passRan, u_passSends>>
  /\ UNCHANGED <<storeVars, obsVars, viewVars>>

\* transact's loop is over: the queue is cleared and the flag reset
\* (lines 582-583).
UTransactEnd ==
  /\ u_pos > Len(u_queue)
  /\ u_queue' = <<>>
  /\ u_isFrameScheduled' = FALSE
  /\ u_pos' = 0
  /\ u_sendsQueued' = 0
  /\ UNCHANGED <<u_state, u_raf, u_inRender, u_objState, u_renders,
                 u_nUpdates, u_nReturned, u_nRun, u_passArgs, u_passRan,
                 u_passSends>>
  /\ UNCHANGED <<storeVars, obsVars, viewVars>>

\* useStore has returned, lines 685-721: init's state is current and the
\* first render is queued (line 718); init's effects are not run.
UseInit ==
  /\ \E tx \in Transactions(MaxFx) :
       /\ tx.state = InitState
       /\ u_state = tx.state
       /\ u_queue = <<tx.state>>
       /\ u_nReturned = Len(tx.effects)
  /\ u_nRun = 0
  /\ u_isFrameScheduled = TRUE
  /\ u_raf = 1
  /\ u_pos = 0
  /\ u_inRender = FALSE
  /\ u_objState = <<>>
  /\ u_renders = 0
  /\ u_nUpdates = 0
  /\ u_sendsQueued = 0
  /\ u_passArgs = <<>>
  /\ u_passRan = 0
  /\ u_passSends = 0

\* useStore has not been called.
UseIdle ==
  /\ u_state = InitState
  /\ u_queue = <<>>
  /\ u_nReturned = 0
  /\ u_nRun = 0
  /\ u_isFrameScheduled = FALSE
  /\ u_raf = 0
  /\ u_pos = 0
  /\ u_inRender = FALSE
  /\ u_objState = <<>>
  /\ u_renders = 0
  /\ u_nUpdates = 0
  /\ u_sendsQueued = 0
  /\ u_passArgs = <<>>
  /\ u_passRan = 0
  /\ u_passSends = 0


\* ------------------------------ rendering() and view() alone, src/mild.js

\* Number of gated calls recorded on one target.
MaxCalls == 3

\* The elements a caller holds.
Targets == {"t1", "t2"}
\* What a caller passes as state: a state reference, or undefined.
GateValues == States \cup {Undefined}

\* renderWhenChanged, lines 235-241: the underlying render runs when the
\* cached state is not the state passed, and the state passed is cached then.
\* w is the sequence of states the underlying render was invoked with.
RenderWhenChangedNoRecord(prev, s) ==
  [w |-> IF Changed(prev, s) THEN <<s>> ELSE <<>>, cached |-> prev]
RenderWhenChanged(prev, s) ==
  [w |-> IF Changed(prev, s) THEN <<s>> ELSE <<>>,
   cached |-> IF Changed(prev, s) THEN Ref(s) ELSE prev]

\* One call renderWhenChanged(element, state, send) on target t.
GateCall(t, s, via) ==
  LET r == RenderWhenChanged(g_cache[t], s) IN
  /\ g_cache' = [g_cache EXCEPT ![t] = r.cached]
  /\ g_log' = [g_log EXCEPT ![t] = Append(@, [s |-> s, w |-> r.w, via |-> via])]

\* The caller makes an element itself (document.createElement) and will
\* hand it to a function decorated by rendering().
CreateElement(t) ==
  /\ g_made[t] = "none"
  /\ g_made' = [g_made EXCEPT ![t] = "plain"]
  /\ UNCHANGED <<g_cache, g_log>>
  /\ UNCHANGED <<storeVars, obsVars, useVars, insertVars, listVars, funVars,
                 cursorVars>>

\* view().create(state, send), lines 257-261: create, then the gated render.
ViewCreateOnly(t, s) ==
  /\ g_made[t] = "none"
  /\ g_made' = [g_made EXCEPT ![t] = "view"]
  /\ UNCHANGED <<g_cache, g_log>>
  /\ UNCHANGED <<storeVars, obsVars, useVars, insertVars, listVars, funVars,
                 cursorVars>>
ViewCreate(t, s) ==
  /\ g_made[t] = "none"
  /\ g_made' = [g_made EXCEPT ![t] = "view"]
  /\ GateCall(t, s, "create")
  /\ UNCHANGED <<storeVars, obsVars, useVars, insertVars, listVars, funVars,
                 cursorVars>>

\* view().render(element, state, send), or the function rendering() returned,
\* called on an element that exists.
ViewRender(t, s) ==
  /\ g_made[t] # "none"
  /\ Len(g_log[t]) < MaxCalls
  /\ GateCall(t, s, "render")
  /\ UNCHANGED g_made
  /\ UNCHANGED <<storeVars, obsVars, useVars, insertVars, listVars, funVars,
                 cursorVars>>

\* No element has been made yet.
GateInit ==
  /\ g_made = [t \in Targets |-> "none"]
  /\ g_cache = [t \in Targets |-> <<>>]
  /\ g_log = [t \in Targets |-> <<>>]

\* ------------------------------------------- insertElementAt, src/mild.js

\* Largest index passed to insertElementAt.
MaxIndex == 4
\* Number of immediately preceding identical calls that is counted.
MaxRepeats == 2

\* Number of elements of the document.
NElems == 4

\* The elements of the document, and what reads as no element (undefined).
Elems == 1 .. NElems
NoElement == 0

\* Sequences of distinct members of S.
DistinctSeqs(S) ==
  {s \in UNION {[1 .. n -> S] : n \in 0 .. Cardinality(S)} :
     \A i, j \in 1 .. Len(s) : i # j => s[i] # s[j]}

\* Position of el in the child list ch, 0 when it is no child.
IndexOf(ch, el) ==
  IF \E k \in 1 .. Len(ch) : ch[k] = el
  THEN CHOOSE k \in 1 .. Len(ch) : ch[k] = el
  ELSE 0

\* ch with el taken out.
Without(ch, el) == SelectSeq(ch, LAMBDA x : x # el)

\* parent.children[index], line 279: indices count from 0, and an index
\* outside the list reads undefined.
ChildAtOffByOne(ch, index) ==
  IF index >= 1 /\ index <= Len(ch) THEN ch[index] ELSE NoElement
ChildAt(ch, index) ==
  IF index < Len(ch) THEN ch[index + 1] ELSE NoElement

\* parent.insertBefore(el, ref), line 283, as the DOM does it: a reference
\* that is el itself is replaced by el's next sibling, el is taken out of the
\* list when it is in it, and it is put before the reference, or last when
\* the reference is undefined.
InsertBefore(ch, el, ref) ==
  LET ref2 == IF ref = el THEN ChildAt(ch, IndexOf(ch, el)) ELSE ref
      rest == Without(ch, el)
      k == IndexOf(rest, ref2)
  IN IF ref2 = NoElement THEN Append(rest, el)
     ELSE SubSeq(rest, 1, k - 1) \o <<el>> \o SubSeq(rest, k, Len(rest))

\* insertElementAt(parent, element, index), lines 278-284: the children
\* afterwards and the number of insertBefore calls made.
InsertElementAtAlways(ch, el, index) ==
  [children |-> InsertBefore(ch, el, ChildAt(ch, index)), calls |-> 1]
InsertElementAt(ch, el, index) ==
  LET elementAtIndex == ChildAt(ch, index) IN
  IF elementAtIndex = el
  THEN [children |-> ch, calls |-> 0]
  ELSE [children |-> InsertBefore(ch, el, elementAtIndex), calls |-> 1]

\* A caller inserts any element, a child of the parent or not, at any index.
InsertAt(el, index) ==
  LET r == InsertElementAt(i_children, el, index) IN
  /\ i_children' = r.children
  /\ i_last' = [op |-> "insert", el |-> el, index |-> index,
                pre |-> i_children, calls |-> r.calls,
                rep |-> IF i_last.op = "insert" /\ i_last.el = el
                           /\ i_last.index = index
                        THEN Min(i_last.rep + 1, MaxRepeats) ELSE 0]
  /\ UNCHANGED <<storeVars, obsVars, useVars, gateVars, listVars, funVars,
                 cursorVars>>

NoInsert ==
  [op |-> "none", el |-> NoElement, index |-> 0, pre |-> <<>>, calls |-> 0,
   rep |-> 0]

\* The parent holds any children, insertElementAt has not been called.
InsertInit ==
  /\ i_children \in DistinctSeqs(Elems)
  /\ i_last = NoInsert

\* insertElementAt is not in use.
InsertIdle ==
  /\ i_children = <<>>
  /\ i_last = NoInsert

\* ------------------------------------------------------ list, src/mild.js

\* Calls of list on the parent.
MaxListCalls == 2
\* Children the parent holds that list did not make.
MaxForeign == 2

\* The keys id(state) returns for states that have one.
Keys == {"k1", "k2", "k3", "k4"}
\* What id(state) returns for a state without one: getId, line 299, reads
\* the id property, which may hold null or be absent.
MissingKeys == {"null", "undefined"}
SomeKeys == {"k1", "k2"}

FewKeys == {"k1", "k2", "k3"}

\* The members of a sequence.
Range(s) == {s[i] : i \in 1 .. Len(s)}

\* Lines 383-389: the loop that fills stateMap throws when a key === null.
HasNullKey(states) == \E i \in 1 .. Len(states) : states[i] = "null"

\* Lines 393-399: the children whose key stateMap does not hold, in order.
RemovesNone(ch, key, states) == <<>>
Removes(ch, key, states) ==
  SelectSeq(ch, LAMBDA c : key[c] \notin Range(states))

\* childMap.get(k), lines 393-395 and 406: the last child carrying k, since
\* a later set overwrites an earlier one; no element when no child does.
ChildMapGetNothing(ch, key, k) == NoElement
ChildMapGetAny(ch, key, k) ==
  IF \E e \in DOMAIN key : key[e] = k
  THEN CHOOSE e \in DOMAIN key : key[e] = k
  ELSE NoElement
ChildMapGet(ch, key, k) ==
  IF \E j \in 1 .. Len(ch) : key[ch[j]] = k
  THEN ch[CHOOSE j \in 1 .. Len(ch) :
            key[ch[j]] = k /\ \A m \in (j + 1) .. Len(ch) : key[ch[m]] # k]
  ELSE NoElement

\* Lines 407-408: the tag of the address made in iteration i is
\* tagging(id(state)), state the entry of that iteration.
AddressTagFirst(states, i) == states[1]
AddressTag(states, i) == states[i + 1]

\* Lines 404-422, from iteration i on.  acc holds the children, the keys of
\* the elements, the next fresh element, and what was done so far: elements
\* created, elements insertBefore was called on, elements render was
\* called on, and the addresses handed out (to which element, with which
\* tag).  cm is childMap.  In iteration failAt the item's function raises:
\* create for a new key, render for a surviving child; no iteration is
\* failAt when failAt is states.length.
RECURSIVE ListLoop(_, _, _, _, _)
ListLoop(acc, cm, states, i, failAt) ==
  IF i >= Len(states) THEN acc
  ELSE
    LET k == states[i + 1]
        child == cm[k]
        tag == AddressTag(states, i)
    IN IF child = NoElement
       THEN LET el == acc.next
                r == InsertElementAt(acc.children, el, i)
            IN IF i = failAt THEN [acc EXCEPT !.threw = TRUE]
               ELSE ListLoop([acc EXCEPT
                                !.children = r.children,
                                !.key = (el :> k) @@ acc.key,
                                !.next = el + 1,
                                !.created = acc.created \cup {el},
                                !.moves = IF r.calls = 1
                                          THEN Append(acc.moves, el)
                                          ELSE acc.moves,
                                !.given = Append(acc.given,
                                                 [el |-> el, tag |-> tag])],
                             cm, states, i + 1, failAt)
       ELSE LET r == InsertElementAt(acc.children, child, i)
                done == [acc EXCEPT
                           !.children = r.children,
                           !.moves = IF r.calls = 1
                                     THEN Append(acc.moves, child)
                                     ELSE acc.moves,
                           !.rendered = Append(acc.rendered, child),
                           !.given = Append(acc.given,
                                            [el |-> child, tag |-> tag])]
            IN IF i = failAt THEN [done EXCEPT !.threw = TRUE]
               ELSE ListLoop(done, cm, states, i + 1, failAt)

\* list(itemlike, parent, states, send), lines 377-423, on the children ch
\* whose keys are key; states is the sequence of the keys of its entries,
\* and the item's function raises in iteration failAt of the forward loop.
ListRun(ch, key, next, states, failAt) ==
  LET nothing == [threw |-> TRUE, children |-> ch, key |-> key, next |-> next,
                  removed |-> <<>>, created |-> {}, moves |-> <<>>,
                  rendered |-> <<>>, given |-> <<>>]
  IN IF HasNullKey(states) THEN nothing
     ELSE
       LET removes == Removes(ch, key, states)
           cm == [k \in Range(states) |-> ChildMapGet(ch, key, k)]
           kept == SelectSeq(ch, LAMBDA c : c \notin Range(removes))
       IN ListLoop([nothing EXCEPT !.threw = FALSE, !.children = kept,
                                   !.removed = removes],
                   cm, states, 0, failAt)

\* The same with an item whose create and render return normally.
ListResult(ch, key, next, states) ==
  ListRun(ch, key, next, states, Len(states))

\* One call of list, of at most maxCalls: the parent, the elements and the
\* addresses they hold afterwards (an element keeps every send function it
\* was ever given).
ListUpdate(states, r, maxCalls) ==
  /\ l_calls < maxCalls
  /\ l_calls' = l_calls + 1
  /\ l_children' = r.children
  /\ l_key' = r.key
  /\ l_next' = r.next
  /\ l_addr' = [e \in DOMAIN r.key |->
                  (IF e \in DOMAIN l_addr THEN l_addr[e] ELSE {})
                  \cup {r.given[j].tag :
                          j \in {n \in 1 .. Len(r.given) : r.given[n].el = e}}]
  /\ l_last' = [op |-> "list", states |-> states, pre |-> l_children,
                threw |-> r.threw, removed |-> r.removed,
                created |-> r.created, moves |-> r.moves,
                rendered |-> r.rendered, given |-> r.given]
  /\ UNCHANGED <<l_tagging, l_lastSend>>
  /\ UNCHANGED <<storeVars, obsVars, useVars, gateVars, insertVars, funVars,
                 cursorVars>>

\* One call of list with a basic item {create, render}: no gate is there.
ListStep(states, r) ==
  /\ ListUpdate(states, r, MaxListCalls)
  /\ UNCHANGED <<l_cache, l_refs, l_writes>>

\* One call of list with any states.
List(states) ==
  ListStep(states, ListResult(l_children, l_key, l_next, states))

\* One call of list in a longer history of calls on the parent.
ListAgain(states) ==
  /\ ListUpdate(states, ListResult(l_children, l_key, l_next, states),
                MaxListCalls + 1)
  /\ UNCHANGED <<l_cache, l_refs, l_writes>>

\* One call of list during which the item's create or render raises.
ListFailing(states, failAt) ==
  /\ ~HasNullKey(states)
  /\ failAt < Len(states)
  /\ ListStep(states, ListRun(l_children, l_key, l_next, states, failAt))

\* The entries of states when the reference of each matters: the key
\* id(state) returns and the state object, one of NStates per key.
Entries(K) == [key : K, s : States]
IdsOf(entries) == [i \in 1 .. Len(entries) |-> entries[i].key]
RefsOf(entries) == [i \in 1 .. Len(entries) |-> entries[i].s]

\* The arrays of at most n entries over the keys K, and those whose keys
\* are pairwise distinct.
EntrySeqs(K, n) == UNION {[1 .. m -> Entries(K)] : m \in 0 .. n}
DistinctEntrySeqs(K) ==
  {es \in EntrySeqs(K, Cardinality(K)) :
     \A i, j \in 1 .. Len(es) : i # j => es[i].key # es[j].key}

\* The item is decorated by view(), lines 255-266.  The forward loop, lines
\* 404-422, from iteration j - 1 on: r.given[j].el is the element of that
\* iteration and refs[j] the state of its entry.  For a new key the item's
\* create is createAndRender (lines 257-261): the element is fresh and the
\* gate renders it; for a surviving child the item's render is
\* renderWhenChanged (lines 235-241).  Gives the gate's cache per element
\* and the invocations of the underlying render, in order.
RECURSIVE ItemGate(_, _, _, _, _)
ItemGate(cache, ws, r, refs, j) ==
  IF j > Len(r.given) THEN [cache |-> cache, writes |-> ws]
  ELSE
    LET el == r.given[j].el
        prev == IF el \in r.created THEN <<>> ELSE cache[el]
        g == RenderWhenChanged(prev, refs[j])
    IN ItemGate((el :> g.cached) @@ cache,
                ws \o [n \in 1 .. Len(g.w) |-> [el |-> el, s |-> g.w[n]]],
                r, refs, j + 1)

\* One call of list with an item decorated by view().
ListView(entries) ==
  LET states == IdsOf(entries)
      r == ListResult(l_children, l_key, l_next, states)
      g == ItemGate(l_cache, <<>>, r, RefsOf(entries), 1)
  IN /\ ListUpdate(states, r, MaxListCalls)
     /\ l_cache' = g.cache
     /\ l_refs' = RefsOf(entries)
     /\ l_writes' = g.writes

\* tagging(k)(m): noTagging, line 308, returns the action unchanged; a
\* tagging of the item's own wraps it with the key.
Tagging(kind, k, m) ==
  [tag |-> IF kind = "noTagging" THEN "none" ELSE k, msg |-> m]

\* forward(send, tag)(action), lines 216-218: the calls of send it makes.
Forward(kind, k, m) == <<Tagging(kind, k, m)>>

\* An element calls, with message m, a send function list gave it.
ChildSend(el, m) ==
  /\ \E t \in l_addr[el] :
       l_lastSend' = [op |-> "send", el |-> el, msg |-> m,
                      got |-> Forward(l_tagging, t, m)]
  /\ UNCHANGED <<l_children, l_key, l_next, l_calls, l_last, l_addr, l_tagging,
                 l_cache, l_refs, l_writes>>
  /\ UNCHANGED <<storeVars, obsVars, useVars, gateVars, insertVars, funVars,
                 cursorVars>>

NoList ==
  [op |-> "none", states |-> <<>>, pre |-> <<>>, threw |-> FALSE,
   removed |-> <<>>, created |-> {}, moves |-> <<>>, rendered |-> <<>>,
   given |-> <<>>]

\* No child has called its send function yet.
NoSend == [op |-> "none", el |-> NoElement, msg |-> "none", got |-> <<>>]

\* The elements somebody else made: they carry no _id.
Foreign == {0 - i : i \in 1 .. MaxForeign}

\* Before the first call the parent holds n of the elements list did not make.
ListStart(n) ==
  /\ l_children = [i \in 1 .. n |-> 0 - i]
  /\ l_key = [e \in Foreign |-> "undefined"]
  /\ l_addr = [e \in Foreign |-> {}]
  /\ l_next = 1
  /\ l_calls = 0
  /\ l_last = NoList
  /\ l_lastSend = NoSend
  /\ l_cache = [e \in Foreign |-> <<>>]
  /\ l_refs = <<>>
  /\ l_writes = <<>>

\* The item has the default tagging, line 341.
ListInit == (\E n \in 0 .. MaxForeign : ListStart(n)) /\ l_tagging = "noTagging"

\* The item has the default tagging or one of its own.
ListSendInit == ListStart(0) /\ l_tagging \in {"noTagging", "custom"}

\* list is not in use.
ListIdle == ListStart(0) /\ l_tagging = "noTagging"

\* -------------------------------- Store function, src/unnamed/part_005

\* The effects an update or init returns: NoFx (line 14), JustFx (lines
\* 17-19), which sends at once, and Fx (lines 2-4), which sends when its
\* promise resolves.
FxKinds == {"NoFx", "JustFx", "Fx"}

\* The state, the flag and the pending animation-frame callbacks.
PNow == [state |-> p_state, flag |-> p_isFrameScheduled, raf |-> p_raf]

\* send, lines 43-50: update returned next.
PUpdated(s, next) ==
  IF s.state # next
  THEN [state |-> next, flag |-> TRUE,
        raf |-> IF ~s.flag THEN s.raf + 1 ELSE s.raf]
  ELSE s

\* fx(send), lines 51 and 62: a JustFx effect calls send before returning,
\* with an update that returns next2 and no further effect.
PEffect(s, fx, next2) == IF fx = "JustFx" THEN PUpdated(s, next2) ELSE s

PUpdates(fx) == IF fx = "JustFx" THEN 1 ELSE 0
PPromises(fx) == IF fx = "Fx" THEN 1 ELSE 0

\* The variables after a send or an effect: `resolved` promises have
\* resolved and fx has been called.
PSet(s, updates, fx, resolved) ==
  /\ p_nUpdates + updates <= MaxSends
  /\ p_pending - resolved + PPromises(fx) <= MaxFx
  /\ p_nUpdates' = p_nUpdates + updates
  /\ p_pending' = p_pending - resolved + PPromises(fx)
  /\ p_state' = s.state
  /\ p_isFrameScheduled' = s.flag
  /\ p_raf' = s.raf

\* send, lines 42-52, one whole call: update returns next and the effect fx.
PDoSend(next, fx, next2, resolved) ==
  PSet(PEffect(PUpdated(PNow, next), fx, next2), 1 + PUpdates(fx), fx,
       resolved)

\* Store runs init's effect, queues the first render as a microtask and
\* returns, lines 62-67.
PConstruct(fx, next2) ==
  /\ p_phase = "constructing"
  /\ p_phase' = "tick"
  /\ PSet(PEffect(PNow, fx, next2), PUpdates(fx), fx, 0)
  /\ UNCHANGED <<p_inRender, p_renderArg>>
  /\ UNCHANGED <<storeVars, obsVars, useVars, gateVars, insertVars, listVars,
                 cursorVars>>

\* send called by the code that holds it, while no frame is executing:
\* before the first microtask or later.
PSend(next, fx, next2) ==
  /\ p_phase \in {"tick", "running"} /\ ~p_inRender
  /\ PDoSend(next, fx, next2, 0)
  /\ UNCHANGED <<p_phase, p_inRender, p_renderArg>>
  /\ UNCHANGED <<storeVars, obsVars, useVars, gateVars, insertVars, listVars,
                 cursorVars>>

\* The promise of an Fx effect resolves and calls send, line 3.  A promise
\* that was already resolved does so before the first render's microtask.
PResolve(next, fx, next2) ==
  /\ p_phase \in {"tick", "running"} /\ ~p_inRender
  /\ p_pending > 0
  /\ PDoSend(next, fx, next2, 1)
  /\ UNCHANGED <<p_phase, p_inRender, p_renderArg>>
  /\ UNCHANGED <<storeVars, obsVars, useVars, gateVars, insertVars, listVars,
                 cursorVars>>

\* frame, lines 54-57, up to the call of render.
PFrameBody ==
  /\ p_isFrameScheduled' = FALSE
  /\ p_inRender' = TRUE
  /\ p_renderArg' = p_state

\* The microtask of line 65 runs frame, when the code that called Store has
\* finished.
PTick ==
  /\ p_phase = "tick" /\ ~p_inRender
  /\ p_phase' = "running"
  /\ PFrameBody
  /\ UNCHANGED <<p_state, p_raf, p_nUpdates, p_pending>>
  /\ UNCHANGED <<storeVars, obsVars, useVars, gateVars, insertVars, listVars,
                 cursorVars>>

\* An animation frame: a callback requested at line 47 runs frame.
PFrame ==
  /\ p_phase = "running" /\ ~p_inRender
  /\ p_raf > 0
  /\ p_raf' = p_raf - 1
  /\ PFrameBody
  /\ UNCHANGED <<p_state, p_phase, p_nUpdates, p_pending>>
  /\ UNCHANGED <<storeVars, obsVars, useVars, gateVars, insertVars, listVars,
                 cursorVars>>

\* render calls send before it returns.
PRenderSend(next, fx, next2) ==
  /\ p_inRender
  /\ PDoSend(next, fx, next2, 0)
  /\ UNCHANGED <<p_phase, p_inRender, p_renderArg>>
  /\ UNCHANGED <<storeVars, obsVars, useVars, gateVars, insertVars, listVars,
                 cursorVars>>

\* render returns, and frame with it.
PRenderEnd ==
  /\ p_inRender
  /\ p_inRender' = FALSE
  /\ UNCHANGED <<p_state, p_isFrameScheduled, p_raf, p_phase, p_nUpdates,
                 p_pending, p_renderArg>>
  /\ UNCHANGED <<storeVars, obsVars, useVars, gateVars, insertVars, listVars,
                 cursorVars>>

\* Store has set isFrameScheduled and state, lines 59-61, and is about to
\* call init's effect.
FunStart(phase) ==
  /\ p_state = InitState
  /\ p_isFrameScheduled = FALSE
  /\ p_raf = 0
  /\ p_phase = phase
  /\ p_inRender = FALSE
  /\ p_nUpdates = 0
  /\ p_pending = 0
  /\ p_renderArg = InitState

FunInit == FunStart("constructing")

\* Store of part_005 has not been called.
FunIdle == FunStart("idle")

\* ------------------------------ cursor and taggingEffect, src/mild.js

\* The tag functions of a cursor: one that wraps the child action in a
\* parent action, as {type: "child", action}, and one that hands it on.
TagKinds == {"wrap", "pass"}

\* tag(action).  A wrapping tag makes an object of whatever it is given.
Tag(kind, v) ==
  IF kind = "pass" THEN v
  ELSE CASE v = "m1" -> "tag(m1)"
         [] v = "m2" -> "tag(m2)"
         [] v = "null" -> "tag(null)"
         [] v = "undefined" -> "tag(undefined)"

\* taggingEffect(tag)(effect), lines 173-176: what the promise it returns
\* settles to when effect settles to e; a rejection passes through the
\* await.
TaggingEffect(kind, e) == IF e = "reject" THEN "reject" ELSE Tag(kind, e)

\* cursor, lines 194-205, and send, lines 113-120: the child update returns
\* tx, its effects are mapped through taggingEffect and handed to runAll.
CursorSend(tx, base) ==
  /\ c_state' = tx.state
  /\ c_inflight' = base (+) SeqToBag(tx.effects)
  /\ c_nUpdates' = c_nUpdates + 1

CursorReturnable(base) ==
  Transactions(MaxSends - (c_nUpdates + 1 + BagCardinality(base)))

\* send called with an action for the child.
CSend(m) ==
  /\ c_tag \in TagKinds
  /\ c_nUpdates + BagCardinality(c_inflight) < MaxSends
  /\ \E tx \in CursorReturnable(c_inflight) : CursorSend(tx, c_inflight)
  /\ UNCHANGED <<c_tag, c_last>>
  /\ UNCHANGED <<storeVars, obsVars, useVars, gateVars, insertVars, listVars,
                 funVars>>

\* A child effect settles to e: its tagged effect settles, and run, lines
\* 137-142, sends what it resolved to when that is an action.
CSettle(e) ==
  /\ BagIn(e, c_inflight)
  /\ LET rest == c_inflight (-) SetToBag({e})
         v == TaggingEffect(c_tag, e)
     IN /\ c_last' = [effect |-> e, value |-> v, sent |-> Delivers(v)]
        /\ IF Delivers(v)
           THEN \E tx \in CursorReturnable(rest) : CursorSend(tx, rest)
           ELSE /\ c_inflight' = rest
                /\ UNCHANGED <<c_state, c_nUpdates>>
  /\ UNCHANGED c_tag
  /\ UNCHANGED <<storeVars, obsVars, useVars, gateVars, insertVars, listVars,
                 funVars>>

NoSettle == [effect |-> "none", value |-> "none", sent |-> FALSE]

\* The Store after its constructor, lines 98-107, with init's effects
\* those of the child's init, mapped through taggingEffect.
CursorInit ==
  /\ c_tag \in TagKinds
  /\ c_state = InitState
  /\ \E tx \in Transactions(MaxSends) :
       tx.state = InitState /\ c_inflight = SeqToBag(tx.effects)
  /\ c_nUpdates = 0
  /\ c_last = NoSettle

\* No Store with a cursor is in use.
CursorIdle ==
  /\ c_tag = "none"
  /\ c_state = InitState
  /\ c_inflight = EmptyBag
  /\ c_nUpdates = 0
  /\ c_last = NoSettle

\* Nothing outside the Store and useStore is in use.
ViewIdle == GateInit /\ InsertIdle /\ ListIdle /\ FunIdle /\ CursorIdle

\* ------------------------------------------------------- specifications

Init == StoreInit(Transactions(MaxSends), BOOLEAN) /\ UseIdle /\ ViewIdle

Next ==
  \/ \E m \in Msgs : Send(m)
  \/ \E e \in Effects : Resolve(e)
  \/ FrameBoundary
  \/ RenderBegin
  \/ \E m \in Msgs : RenderSend(m)
  \/ RenderEnd

Spec == Init /\ [][Next]_vars

InitUse == StoreInit(Transactions(0), {FALSE}) /\ UseInit /\ ViewIdle

NextUse ==
  \/ \E m \in Msgs : USend(m)
  \/ UTransactBegin
  \/ UCallback
  \/ \E m \in Msgs : URenderSend(m)
  \/ UCallbackEnd
  \/ UTransactEnd

\* The Store with an application render that may raise.
NextThrow ==
  \/ \E m \in Msgs : Send(m)
  \/ \E e \in Effects : Resolve(e)
  \/ FrameBoundary
  \/ RenderBegin
  \/ \E m \in Msgs : RenderSend(m)
  \/ RenderEnd
  \/ RenderThrow

SpecThrow == Init /\ [][NextThrow]_vars

SpecUse == InitUse /\ [][NextUse]_vars

InitGate ==
  /\ StoreInit(Transactions(0), {FALSE}) /\ UseIdle
  /\ GateInit /\ InsertIdle /\ ListIdle /\ FunIdle /\ CursorIdle

NextGate ==
  \/ \E t \in Targets : CreateElement(t)
  \/ \E t \in Targets, s \in GateValues : ViewCreate(t, s)
  \/ \E t \in Targets, s \in GateValues : ViewRender(t, s)

SpecGate == InitGate /\ [][NextGate]_vars

InitInsert ==
  /\ StoreInit(Transactions(0), {FALSE}) /\ UseIdle
  /\ GateInit /\ InsertInit /\ ListIdle /\ FunIdle /\ CursorIdle

NextInsert == \E el \in Elems, index \in 0 .. MaxIndex : InsertAt(el, index)

SpecInsert == InitInsert /\ [][NextInsert]_vars

\* list called with states that all have a key, the keys pairwise distinct.
InitList ==
  /\ StoreInit(Transactions(0), {FALSE}) /\ UseIdle
  /\ GateInit /\ InsertIdle /\ ListInit /\ FunIdle /\ CursorIdle

NextList == \E states \in DistinctSeqs(Keys) : List(states)

SpecList == InitList /\ [][NextList]_vars

\* list called with states some of which may have no key.
NextListAny == \E states \in DistinctSeqs(SomeKeys \cup MissingKeys) : List(states)

SpecListAny == InitList /\ [][NextListAny]_vars

\* list called with an item whose create or render may raise, and with
\* states that may hold an entry whose key is null.
NextListFail ==
  \/ \E states \in DistinctSeqs(SomeKeys \cup {"null"}) : List(states)
  \/ \E states \in DistinctSeqs(SomeKeys) :
       \E failAt \in 0 .. (Len(states) - 1) : ListFailing(states, failAt)

SpecListFail == InitList /\ [][NextListFail]_vars

\* list called with an item decorated by view() and states whose keys are
\* pairwise distinct.
NextListView == \E entries \in DistinctEntrySeqs(SomeKeys) : ListView(entries)

SpecListView == InitList /\ [][NextListView]_vars

\* list called with an item decorated by view() and any states: several
\* entries may share a key.
NextListDup ==
  \E entries \in EntrySeqs(SomeKeys, Cardinality(SomeKeys) + 1) :
    ListView(entries)

SpecListDup == InitList /\ [][NextListDup]_vars

\* A longer history of calls of list on one parent, the keys of each call
\* pairwise distinct.
NextListHist == \E states \in DistinctSeqs(FewKeys) : ListAgain(states)

SpecListHist == InitList /\ [][NextListHist]_vars

\* A Store whose update is composed with cursor().
InitCursor ==
  /\ StoreInit(Transactions(0), {FALSE}) /\ UseIdle
  /\ GateInit /\ InsertIdle /\ ListIdle /\ FunIdle /\ CursorInit

NextCursor ==
  \/ \E m \in Msgs : CSend(m)
  \/ \E e \in Effects : CSettle(e)

SpecCursor == InitCursor /\ [][NextCursor]_vars

\* list called with distinct keys, and the children sending messages.
InitListSend ==
  /\ StoreInit(Transactions(0), {FALSE}) /\ UseIdle
  /\ GateInit /\ InsertIdle /\ ListSendInit /\ FunIdle /\ CursorIdle

NextListSend ==
  \/ \E states \in DistinctSeqs(FewKeys) : List(states)
  \/ \E el \in DOMAIN l_addr, m \in Msgs : ChildSend(el, m)

SpecListSend == InitListSend /\ [][NextListSend]_vars

InitFun ==
  /\ StoreInit(Transactions(0), {FALSE}) /\ UseIdle
  /\ GateInit /\ InsertIdle /\ ListIdle /\ FunInit /\ CursorIdle

NextFun ==
  \/ \E fx \in FxKinds, next2 \in States : PConstruct(fx, next2)
  \/ \E next \in States, fx \in FxKinds, next2 \in States :
       PSend(next, fx, next2)
  \/ \E next \in States, fx \in FxKinds, next2 \in States :
       PResolve(next, fx, next2)
  \/ PTick
  \/ PFrame
  \/ \E next \in States, fx \in FxKinds, next2 \in States :
       PRenderSend(next, fx, next2)
  \/ PRenderEnd

SpecFun == InitFun /\ [][NextFun]_vars

\* ------------------------------------------------------------- claims

\* No frame callback of the Store is fired and waiting, none is executing.
FrameDone == frameQueue = 0 /\ ~rendering

\* C1 (frame coalescing): when n >= 1 send calls were made outside render in
\* the window closed by the last frame boundary, #render is invoked exactly
\* once at that boundary, not n times.
C1_FrameCoalescing ==
  (FrameDone /\ prevWindowSends >= 1) => frameRenders = 1

\* C1's case: a window of at least two sends has been rendered.
C1_Witness ==
  FrameDone /\ prevWindowSends >= 2 /\ frameRenders = 1

\* C2: the state handed to #render when the frame callback runs is the
\* store's state at that moment.
C2_RenderReadsCurrentState ==
  [][(~rendering /\ rendering') => renderArg' = state]_vars

\* C2's case: #render runs with a state that was produced, in part by an
\* effect's send, after the render had been requested.
C2_Witness ==
  rendering /\ renderSends = 0 /\ renderArg # stateAtRequest /\ nFxSends >= 1

\* C3 (no lost update): once no frame callback is pending or running, the
\* state last passed to #render is the store's state.
C3_NoLostUpdate ==
  (rafPending = 0 /\ FrameDone) => renderArg = state

\* C4: when a #render during which send was called returns, a frame callback
\* is pending for the state that send produced.
C4_SendInRenderSchedulesFrame ==
  [][(rendering /\ ~rendering' /\ renderSends >= 1) => rafPending' >= 1]_vars

\* C5: at most one frame callback of the store is pending or executing.
C5_AtMostOneRenderInFlight ==
  rafPending + frameQueue + (IF rendering THEN 1 ELSE 0) <= 1

\* C5's case: several sends were made while one callback was pending.
C5_Witness ==
  rafPending = 1 /\ windowSends >= 2

\* C6: a send whose update returns the current state reference requests no
\* frame callback.
C6_SameRefSendStaysIdle ==
  [][(nUpdates' = nUpdates + 1 /\ state' = state /\ ~isRenderScheduled)
       => (~isRenderScheduled' /\ rafPending' = rafPending)]_vars

\* C7: with a decorated view, the application's render is invoked once by
\* create and afterwards at most once per send that changed the state
\* reference; sends that return the same reference cause no invocation.
C7_SameRefSendsWriteNothing ==
  gated => (writes >= 1 /\ writes <= 1 + nChanges)

\* C7's case: several sends returned the same reference, a frame rendered
\* them, and only create's write was made.
C7_Witness ==
  /\ gated /\ FrameDone /\ ~isRenderScheduled
  /\ nUpdates >= 2 /\ nChanges = 0 /\ frameRenders = 1 /\ writes = 1

\* C8: every effect returned by init or update has been handed to run(),
\* whether or not the state changed; each is in flight or settled, and the
\* effects settled with an action caused exactly one send each.
C8_EveryEffectRuns ==
  /\ nRun = nReturned
  /\ nSettled + BagCardinality(inflight) = nRun
  /\ nFxSends = nSettledMsg

\* C8's case: no update changed the state, update returned effects, and an
\* effect was delivered to send.
C8_Witness ==
  /\ nUpdates >= 1 /\ nChanges = 0 /\ nReturned > MaxFx
  /\ nFxSends >= 1 /\ inflight = EmptyBag

\* C9: with useStore, every effect returned by init or update is run.
C9_UseStoreRunsEffects ==
  u_nRun = u_nReturned

\* C10: an effect that settles to null or undefined causes no send (update
\* is not invoked, state and the render-scheduled flag keep their values);
\* an effect that settles to an action causes exactly one send of it.
C10_RunSendsOnlyActions ==
  [][nSettled' = nSettled + 1 =>
       IF lastSettled' \in {"null", "undefined"}
       THEN /\ nUpdates' = nUpdates
            /\ state' = state
            /\ isRenderScheduled' = isRenderScheduled
            /\ rafPending' = rafPending
       ELSE lastSettled' \in Msgs =>
              /\ nUpdates' = nUpdates + 1
              /\ nFxSends' = nFxSends + 1
              /\ lastMsg' = lastSettled']_vars

\* C10's case: an effect settled to an action and was sent, and a later one
\* settled to undefined.
C10_Witness ==
  lastSettled = "undefined" /\ nSettledMsg >= 1 /\ lastMsg \in Msgs


\* The calls k of i..j on target t all pass the state reference s, and the
\* call before them on t, if any, passed something else.
SameStateRun(t, i, j, s) ==
  /\ \A k \in i .. j : g_log[t][k].s = s
  /\ i > 1 => g_log[t][i - 1].s # s

\* C11 (gate idempotence): of N >= 1 consecutive calls of the gated function
\* on one target with one state reference, the first invokes the underlying
\* render, once and with that state, and none of the others invokes it.
C11_GateIdempotence ==
  \A t \in Targets : \A i \in 1 .. Len(g_log[t]) : \A j \in i .. Len(g_log[t]) :
    \A s \in States :
      SameStateRun(t, i, j, s) =>
        /\ g_log[t][i].w = <<s>>
        /\ \A k \in (i + 1) .. j : g_log[t][k].w = <<>>

\* Three consecutive calls with one reference on an element made by the
\* caller: one write, made by the first.
C11_Witness ==
  \E t \in Targets : \E s \in States :
    /\ g_made[t] = "plain"
    /\ Len(g_log[t]) = 3
    /\ SameStateRun(t, 1, 3, s)
    /\ g_log[t][1].w = <<s>>
    /\ g_log[t][2].w = <<>> /\ g_log[t][3].w = <<>>

\* C12 (gate change detection): a gated call whose state differs from the
\* state of the call before it on the same target invokes the underlying
\* render with the state passed, and after every call the target's cached
\* reference is the state passed to that call.
C12_GateChangeDetection ==
  \A t \in Targets :
    /\ \A i \in 2 .. Len(g_log[t]) :
         g_log[t][i].s # g_log[t][i - 1].s => g_log[t][i].w = <<g_log[t][i].s>>
    /\ Len(g_log[t]) >= 1 => g_cache[t] = Ref(g_log[t][Len(g_log[t])].s)

\* The calls A, B, A on one target: three writes.
C12_Witness ==
  \E t \in Targets : \E a, b \in States :
    /\ a # b
    /\ Len(g_log[t]) = 3
    /\ g_log[t][1].s = a /\ g_log[t][2].s = b /\ g_log[t][3].s = a
    /\ \A i \in 1 .. 3 : g_log[t][i].w # <<>>
    /\ g_cache[t] = <<a>>

\* C13 (view create): the element view().create(state, send) returns has had
\* the underlying render invoked exactly once, with that state, and a
\* view().render on it with the same state right after invokes it no more.
C13_ViewCreateRendersOnce ==
  \A t \in Targets :
    g_made[t] = "view" =>
      /\ Len(g_log[t]) >= 1
      /\ g_log[t][1].via = "create"
      /\ g_log[t][1].s \in States => g_log[t][1].w = <<g_log[t][1].s>>
      /\ (Len(g_log[t]) >= 2 /\ g_log[t][2].s = g_log[t][1].s)
           => g_log[t][2].w = <<>>

\* create(s, send) followed by render(element, s, send).
C13_Witness ==
  \E t \in Targets : \E s \in States :
    /\ g_made[t] = "view"
    /\ Len(g_log[t]) = 2
    /\ g_log[t][1] = [s |-> s, w |-> <<s>>, via |-> "create"]
    /\ g_log[t][2] = [s |-> s, w |-> <<>>, via |-> "render"]


\* C14 (insertElementAt, already in place): a call made when
\* parent.children[index] is the element calls insertBefore not at all and
\* leaves the child list as it was, however often the call is repeated.
C14_InsertInPlaceNoMutation ==
  (i_last.op = "insert" /\ ChildAt(i_last.pre, i_last.index) = i_last.el) =>
    (i_last.calls = 0 /\ i_children = i_last.pre)

\* The third of three identical calls, the element being in place.
C14_Witness ==
  /\ i_last.op = "insert"
  /\ i_last.rep = 2
  /\ Len(i_last.pre) >= 2
  /\ ChildAt(i_last.pre, i_last.index) = i_last.el
  /\ i_last.calls = 0

\* C15 (insertElementAt, append): with an element that is no child and an
\* index at or beyond the number of children, the element becomes the last
\* child and the other children keep their order; so for an empty parent.
C15_InsertBeyondEndAppends ==
  (/\ i_last.op = "insert"
   /\ IndexOf(i_last.pre, i_last.el) = 0
   /\ i_last.index >= Len(i_last.pre)) =>
    i_children = Append(i_last.pre, i_last.el)

\* An element appended to two children with an index beyond the end.
C15_Witness ==
  /\ i_last.op = "insert"
  /\ Len(i_last.pre) = 2
  /\ i_last.index > 2
  /\ IndexOf(i_last.pre, i_last.el) = 0
  /\ i_children = Append(i_last.pre, i_last.el)


\* The last call of list, and what it met in the parent.
ListCalled == l_last.op = "list"
\* Every entry of its states has a key (the action draws keys pairwise
\* distinct).
KeyedCall ==
  /\ ListCalled
  /\ \A i \in 1 .. Len(l_last.states) : l_last.states[i] \in Keys
  /\ \A i, j \in 1 .. Len(l_last.states) :
       i # j => l_last.states[i] # l_last.states[j]
\* The children before the call whose key occurs in states, in their order,
\* and the keys of states some child before the call carried, in theirs.
Surviving == SelectSeq(l_last.pre, LAMBDA c : l_key[c] \in Range(l_last.states))
SurvivingKeys ==
  SelectSeq(l_last.states,
            LAMBDA k : \E i \in 1 .. Len(l_last.pre) : l_key[l_last.pre[i]] = k)
KeysOf(ch) == [i \in 1 .. Len(ch) |-> l_key[ch[i]]]

\* C16 (list, net effect): after a call whose states have pairwise distinct
\* keys, whatever children the parent held before, the parent has exactly
\* states.length children and the i-th child carries the key of states[i].
C16_ListChildrenMatchStates ==
  KeyedCall => (~l_last.threw /\ KeysOf(l_children) = l_last.states)

\* A call that met three children, removed some, created some and kept some
\* in another order.
C16_Witness ==
  /\ KeyedCall
  /\ Len(l_last.pre) = 3
  /\ Len(l_last.removed) >= 1
  /\ KeysOf(Surviving) # SurvivingKeys
  /\ Len(l_last.states) >= 3
  /\ l_last.created # {}
  /\ Len(Surviving) >= 1
  /\ KeysOf(l_children) = l_last.states

\* C17 (keyed stability): a call with distinct keys creates as many elements
\* as states has keys no current child carries, removes as many children as
\* carry a key absent from states, and every child whose key is in states is
\* afterwards the one child carrying that key.
C17_KeyedStability ==
  KeyedCall =>
    /\ Cardinality(l_last.created)
         = Cardinality(Range(l_last.states) \ Range(KeysOf(l_last.pre)))
    /\ Len(l_last.removed)
         = Cardinality({i \in 1 .. Len(l_last.pre) :
                          l_key[l_last.pre[i]] \notin Range(l_last.states)})
    /\ \A i \in 1 .. Len(l_last.pre) :
         l_key[l_last.pre[i]] \in Range(l_last.states) =>
           /\ \E j \in 1 .. Len(l_children) : l_children[j] = l_last.pre[i]
           /\ \A j \in 1 .. Len(l_children) :
                l_key[l_children[j]] = l_key[l_last.pre[i]]
                  => l_children[j] = l_last.pre[i]

\* A pure permutation of three children: nothing created, nothing removed,
\* the same three elements in another order.
C17_Witness ==
  /\ KeyedCall
  /\ Len(l_last.pre) = 3
  /\ Range(KeysOf(l_last.pre)) = Range(l_last.states)
  /\ KeysOf(l_last.pre) # l_last.states
  /\ l_last.created = {} /\ l_last.removed = <<>>
  /\ Range(l_children) = Range(l_last.pre)

\* C18 (no needless reparenting): when the surviving keys come in states in
\* the order their children have in the parent, no surviving child is
\* removed or has insertBefore applied to it; and when the last child is
\* moved to the front, insertBefore is not applied to the child that was
\* first.
C18_SameOrderNotReparented ==
  KeyedCall =>
    /\ KeysOf(Surviving) = SurvivingKeys =>
         \A i \in 1 .. Len(Surviving) :
           /\ Surviving[i] \notin Range(l_last.removed)
           /\ Surviving[i] \notin Range(l_last.moves)
    /\ (/\ Len(l_last.pre) >= 2
        /\ Len(Surviving) = Len(l_last.pre)
        /\ l_last.states
             = <<l_key[l_last.pre[Len(l_last.pre)]]>>
               \o KeysOf(SubSeq(l_last.pre, 1, Len(l_last.pre) - 1)))
         => l_last.pre[1] \notin Range(l_last.moves)

\* Two children survive in their order while another is removed and a new
\* one is put in front of them.
C18_Witness ==
  /\ KeyedCall
  /\ Len(Surviving) = 2
  /\ KeysOf(Surviving) = SurvivingKeys
  /\ Len(l_last.removed) >= 1
  /\ Cardinality(l_last.created) >= 1
  /\ l_last.states[1] \notin Range(KeysOf(l_last.pre))
  /\ \A i \in 1 .. 2 : Surviving[i] \notin Range(l_last.moves)

\* Position of x in the sequence s of distinct members.
Rank(s, x) == CHOOSE i \in 1 .. Len(s) : s[i] = x

\* C19 (mutation bound): in a call with distinct keys the removeChild calls
\* and the insertBefore calls together number at most the children removed,
\* plus the elements created, plus the surviving children whose place among
\* the surviving children differs between the old order and the new; and
\* insertBefore is applied to no surviving child whose place is the same.
C19_MutationBound ==
  KeyedCall =>
    LET displaced == {i \in 1 .. Len(Surviving) :
                        Rank(SurvivingKeys, l_key[Surviving[i]]) # i}
    IN /\ Len(l_last.removed) + Len(l_last.moves)
            <= Len(l_last.removed) + Cardinality(l_last.created)
               + Cardinality(displaced)
       /\ \A i \in 1 .. Len(Surviving) :
            i \notin displaced => Surviving[i] \notin Range(l_last.moves)

\* C20 (missing key): a call of list with an entry whose key is null or
\* undefined raises, and has then removed, created, moved and rendered
\* nothing.
C20_MissingKeyRaises ==
  (ListCalled /\ Range(l_last.states) \cap MissingKeys # {}) =>
    /\ l_last.threw
    /\ l_children = l_last.pre
    /\ l_last.removed = <<>> /\ l_last.created = {}
    /\ l_last.moves = <<>> /\ l_last.rendered = <<>>

\* C30 (list renders every entry): a call of list invokes the item's render
\* for every entry of states, also on the element it created for a new key,
\* after attaching the key and inserting it.
C30_ListRendersNewChildren ==
  KeyedCall =>
    \A i \in 1 .. Len(l_children) : l_children[i] \in Range(l_last.rendered)

\* C21 (failed list call): when a call of list raises, for a missing key or
\* because the item's create or render raised in the forward pass, the
\* parent's children are afterwards the children it had before, in order.
C21_FailedListLeavesChildren ==
  (ListCalled /\ l_last.threw) => l_children = l_last.pre

\* C22 (address tagging): a message m that an element passes to a send
\* function list gave it reaches list's send exactly once, as tagging(k)(m)
\* with k the element's own key (as m itself under the default tagging),
\* whether the element was created or survived, and however the calls
\* reordered the children.
C22_AddressTaggedWithOwnKey ==
  l_lastSend.op = "send" =>
    l_lastSend.got
      = <<[tag |-> IF l_tagging = "noTagging" THEN "none"
                   ELSE l_key[l_lastSend.el],
           msg |-> l_lastSend.msg]>>

\* A child that survived a call which moved it sends a message through an
\* item with a tagging of its own.
C22_Witness ==
  /\ l_lastSend.op = "send"
  /\ l_tagging = "custom"
  /\ l_lastSend.el \in Range(l_last.moves)
  /\ l_lastSend.el \in Range(l_last.rendered)
  /\ l_lastSend.got = <<[tag |-> l_key[l_lastSend.el], msg |-> l_lastSend.msg]>>

\* C23 (update serialisation): however direct sends, effect settlements and
\* frame callbacks interleave, update is invoked once per send, each
\* invocation receives the state the invocation before it returned (init's
\* state for the first), and the store's state is the state the last
\* invocation returned.
C23_UpdatesChained ==
  /\ nUpdates = nSends
  /\ chained
  /\ state = lastRet

\* Three sends, one of them caused by an effect, one made inside a frame
\* callback, the state changing from send to send.
C23_Witness ==
  /\ nSends = 3 /\ nChanges >= 2
  /\ nFxSends >= 1 /\ renderSends >= 1
  /\ chained /\ state = lastRet

\* C24 (effects are delivered asynchronously): the constructor returns with
\* no update invoked and all of init's effects in flight; every call hands
\* all the effects it dispatched to the future, no step holds two
\* invocations of update, and a send caused by an effect happens only for an
\* effect that was in flight before, in a step of its own.
C24_EffectSendsNeverNested ==
  /\ (nUpdates = 0 /\ BagCardinality(inflight) = nReturned)
  /\ [][/\ nUpdates' <= nUpdates + 1
        /\ BagCardinality(inflight')
             = BagCardinality(inflight) - (nSettled' - nSettled)
               + (nReturned' - nReturned)
        /\ nFxSends' # nFxSends =>
             /\ BagIn(lastSettled', inflight)
             /\ nSettled' = nSettled + 1
             /\ nFxSends' = nFxSends + 1
             /\ nUpdates' = nUpdates + 1]_vars

\* After a direct send an effect has been delivered, in a step of its own,
\* and its update dispatched an effect in turn.
C24_Witness ==
  /\ nFxSends >= 1
  /\ nSends > nFxSends
  /\ lastSettled \in Msgs /\ lastMsg = lastSettled
  /\ inflight # EmptyBag

C26_RejectionIsSilent ==
  [][(nSettled' = nSettled + 1 /\ lastSettled' = "reject") =>
       /\ nSends' = nSends /\ nUpdates' = nUpdates
       /\ state' = state
       /\ isRenderScheduled' = isRenderScheduled
       /\ rafPending' = rafPending
       /\ inflight' = inflight (-) SetToBag({"reject"})]_vars

\* An effect rejected while a render is scheduled and an effect of the same
\* transaction is still in flight, after an earlier effect was delivered.
C26_Witness ==
  /\ lastSettled = "reject"
  /\ isRenderScheduled
  /\ nFxSends >= 1
  /\ \E e \in Msgs : BagIn(e, inflight)

\* The frame pass of the queue has called every callback and not yet
\* cleared the queue.
UPassDone == u_pos >= 1 /\ u_pos > Len(u_queue)

C28_AnimationQueue ==
  /\ [](u_raf <= 1 /\ (u_raf = 1 => u_isFrameScheduled))
  /\ [][/\ u_raf' > u_raf => (u_pos = 0 /\ u_raf = 0)
        /\ (u_queue # <<>> /\ u_queue' = <<>>) =>
             (u_pos > Len(u_queue) /\ u_passRan = Len(u_queue))
        /\ (u_pos >= 1 /\ Len(u_queue') > Len(u_queue)) =>
             (u_pos' <= Len(u_queue) /\ u_raf' = u_raf)]_vars

\* A pass that called a callback queued by a send made inside it.
C28_Witness ==
  /\ UPassDone
  /\ u_passSends >= 1
  /\ u_passRan = Len(u_queue)
  /\ Len(u_passArgs) >= 2
  /\ u_raf = 0

\* C29 (Store of part_005): at most one requestAnimationFrame callback of
\* the store is pending, and isFrameScheduled is true exactly when one is,
\* also when init's effect sends during construction.
C29_OneFramePending ==
  /\ p_raf <= 1
  /\ p_isFrameScheduled <=> (p_raf = 1)

\* C33 (gate, first write): the first call of a gated function on a target
\* the gate has never written invokes the underlying render with the state
\* passed, whatever that state is, undefined included.
C33_FirstWriteUnconditional ==
  \A t \in Targets :
    Len(g_log[t]) >= 1 => g_log[t][1].w = <<g_log[t][1].s>>

\* C34 (insertElementAt, placement): after insertElementAt(parent, element,
\* index) with index smaller than the number of children, the child at
\* index is element, whether element was no child, a child before index or a
\* child after it.
C34_InsertPlacesAtIndex ==
  (i_last.op = "insert" /\ i_last.index < Len(i_last.pre))
    => ChildAt(i_children, i_last.index) = i_last.el

\* C37 (render raises): after the application's render has raised in a frame
\* callback, a send made outside render that changes the state leaves a
\* frame callback requested, so that render runs again.
C37_SchedulerRecoversAfterThrow ==
  [][(threw /\ ~rendering /\ nChanges' > nChanges) => rafPending' >= 1]_vars

\* The entry at position i of the call just made was handed to the
\* element given[i].el, and the underlying render ran on that element with
\* that entry's state.
WroteEntry(last, refs, ws, i) ==
  \E n \in 1 .. Len(ws) :
    ws[n] = [el |-> last.given[i].el, s |-> refs[i]]

\* C31 (list, gated item): in a call of list every surviving child, whose
\* key was an entry of the call before, gets the underlying render exactly
\* when the state reference of its entry is not the one of that earlier
\* entry (the state it was last rendered with), wherever it is moved to,
\* and never more than once.
C31_SurvivorWrittenIffChanged ==
  [][l_calls' = l_calls + 1 =>
       \A i \in 1 .. Len(l_last'.states) :
         /\ \A j \in 1 .. Len(l_last.states) :
              l_last.states[j] = l_last'.states[i] =>
                /\ l_last'.given[i].el = l_last.given[j].el
                /\ WroteEntry(l_last', l_refs', l_writes', i)
                     <=> (l_refs[j] # l_refs'[i])
         /\ Cardinality({n \in 1 .. Len(l_writes') :
                           l_writes'[n].el = l_last'.given[i].el}) <= 1]_vars

\* Two children survive the second call and change places; one entry
\* carries a new state reference, the other does not: one write.
C31_Witness ==
  /\ l_calls = 2
  /\ Len(l_last.states) = 2
  /\ l_last.created = {}
  /\ Len(l_last.rendered) = 2
  /\ l_last.moves # <<>>
  /\ Len(l_writes) = 1

\* C36 (list, idempotence): a call of list that follows a call with the
\* same states array, the keys distinct and the item decorated by view(),
\* removes no child, calls insertBefore on none, creates no element and
\* invokes the underlying render on none.
C36_ListIdempotent ==
  [][(/\ l_calls >= 1
      /\ l_calls' = l_calls + 1
      /\ l_last'.states = l_last.states
      /\ l_refs' = l_refs)
       => /\ l_last'.removed = <<>>
          /\ l_last'.moves = <<>>
          /\ l_last'.created = {}
          /\ l_writes' = <<>>
          /\ l_children' = l_children]_vars

\* The second of two calls with the same two entries: both children are
\* found in place and handed to the gate, which writes nothing.
C36_Witness ==
  /\ l_calls = 2
  /\ Len(l_last.states) = 2
  /\ l_last.pre = l_children
  /\ KeysOf(l_children) = l_last.states
  /\ Len(l_last.rendered) = 2
  /\ l_last.removed = <<>> /\ l_last.moves = <<>> /\ l_last.created = {}
  /\ l_writes = <<>>

\* Some key occurs twice in states.
HasDuplicateKey(states) ==
  \E i, j \in 1 .. Len(states) : i # j /\ states[i] = states[j]
\* The state reference of the last entry of the last call that carries k.
LastRefOf(k) ==
  l_refs[CHOOSE i \in 1 .. Len(l_last.states) :
           /\ l_last.states[i] = k
           /\ \A j \in (i + 1) .. Len(l_last.states) : l_last.states[j] # k]

\* C35 (list, duplicate keys): a call whose states hold a key more than
\* once does not raise, and after it the parent holds exactly one child per
\* distinct key of states, last rendered with the last entry carrying that
\* key.
C35_DuplicateKeysLastWins ==
  (l_last.op = "list" /\ HasDuplicateKey(l_last.states)) =>
    /\ ~l_last.threw
    /\ Len(l_children) = Cardinality(Range(l_last.states))
    /\ \A k \in Range(l_last.states) :
         \E i \in 1 .. Len(l_children) :
           /\ l_key[l_children[i]] = k
           /\ l_cache[l_children[i]] = <<LastRefOf(k)>>

\* C38 (list, keys of elements): after any calls of list with pairwise
\* distinct keys the children of the parent carry pairwise distinct keys,
\* and no call changes the key of an element that exists.
C38_KeysDistinctAndStable ==
  /\ [](l_calls >= 1 =>
          \A i, j \in 1 .. Len(l_children) :
            i # j => l_key[l_children[i]] # l_key[l_children[j]])
  /\ [][\A e \in DOMAIN l_key : e \in DOMAIN l_key' /\ l_key'[e] = l_key[e]]_vars

\* A later call keeps two children and moves one of them: each still
\* carries the key of its creation.
C38_Witness ==
  /\ l_calls >= 2
  /\ Len(l_children) = 2
  /\ l_last.created = {}
  /\ l_last.moves # <<>>
  /\ Range(l_children) = Range(l_last.pre)
  /\ l_key[l_children[1]] # l_key[l_children[2]]

\* C39 (list, removed elements): an element that is not a child of the
\* parent is not made one by a call of list; for a key of states that no
\* child carries the call creates a fresh element, also when an element
\* removed earlier carried that key.
C39_RemovedNeverReinserted ==
  [][l_calls' = l_calls + 1 =>
       /\ \A e \in DOMAIN l_key :
            e \notin Range(l_children) => e \notin Range(l_children')
       /\ \A i \in 1 .. Len(l_last'.states) :
            l_last'.states[i] \notin Range(KeysOf(l_children)) =>
              /\ l_last'.given[i].el \in l_last'.created
              /\ l_last'.given[i].el >= l_next
              /\ l_last'.given[i].el \in Range(l_children')]_vars

\* The third call brings back a key whose element an earlier call removed:
\* the child carrying it was created by this call, and the removed element
\* stays outside.
C39_Witness ==
  /\ l_calls = 3
  /\ \E el \in l_last.created : \E old \in DOMAIN l_key :
       /\ old > 0 /\ old # el
       /\ l_key[old] = l_key[el]
       /\ old \notin Range(l_children)
       /\ el \in Range(l_children)

\* C32 (cursor, silent effects): when a child effect resolves to null or to
\* undefined, the tagged effect cursor handed to the Store causes no send.
C32_TaggedSilentEffectStaysSilent ==
  c_last.effect \in {"null", "undefined"} => ~c_last.sent

=============================================================================
